---- MODULE Spec2Model ----
(***************************************************************************)
(* Binance_Bot: the candle client (paginated concurrent fetches behind a   *)
(* semaphore-based call limiter).                                          *)
(*                                                                         *)
(* Time.  A datetime is a natural number of ticks (the resolution of a     *)
(* Python datetime); a timestamp is a number of milliseconds.  The real    *)
(* ratios (1000 us per ms, 1000 ms per s, 60 s per minute) are scaled down *)
(* to the bounds below; the page size stands for the 1000 of the code,     *)
(* which is both the `limit` of a fetch and the number of minutes the      *)
(* pagination cursor advances.                                             *)
(***************************************************************************)
EXTENDS Integers, Sequences, FiniteSets, TLC

\* ----------------------------------------------------------------- bounds
TicksPerMs == 2
MsPerSecond == 2
SecondsPerMinute == 2
\* stands for 1000: rows per fetch and minutes per cursor step
PageSize == 2
\* stands for 50: the permits of the call limiter
MaxCalls == 2
\* the longest range given to get_prices_in_period, in cursor steps
MaxWindows == 3

\* ------------------------------------------------------------------- time
Ms == TicksPerMs
Second == MsPerSecond * Ms
Minute == SecondsPerMinute * Second
MinuteMs == SecondsPerMinute * MsPerSecond

\* timedelta(minutes=1000), the step of the pagination cursor
Window == PageSize * Minute
\* timedelta(seconds=1), the slack of the loop's exit test
Slack == Second
\* limit: int = 1000
limit == PageSize
\* rate_limiter(max_calls=50)
max_calls == MaxCalls

\* int(dt.timestamp() * 1000): the datetime in whole milliseconds, the
\* fraction of a millisecond truncated (times are after the epoch)
datetime_to_timestamp(dt) == dt \div Ms

\* None, for an optional datetime argument (datetimes are >= 0)
None == -1
Min(a, b) == IF a <= b THEN a ELSE b

\* ------------------------------------------------------------ the exchange
\* The exchange holds 1-minute candles, each identified by its open time (ms),
\* a multiple of one minute.
GridMinutes == 0 .. (MaxWindows * PageSize + 1)
FullExchange == { g * MinuteMs : g \in GridMinutes }

\* the candles of a set in ascending order
Ascending(S) ==
    [ n \in 1 .. Cardinality(S) |->
        CHOOSE x \in S : Cardinality({ y \in S : y < x }) = n - 1 ]

Take(s, n) == SubSeq(s, 1, Min(n, Len(s)))

\* One row of GET /klines: 12 fields, open time first, close time seventh.
Row(t) == [ j \in 1..12 |->
              IF j = 1 THEN t
              ELSE IF j = 7 THEN t + MinuteMs - 1
              ELSE IF j = 12 THEN 0
              ELSE 100 + j ]

\* GET /klines: in ascending order the first at most `lim` candles whose open
\* time lies in [startTime, endTime]
Klines(held, startTime, endTime, lim) ==
    LET times == Take(Ascending({ t \in held : startTime <= t /\ t <= endTime }), lim)
    IN  [ n \in 1..Len(times) |-> Row(times[n]) ]

\* ------------------------------------------------------------ the columns
KlineColumns ==
    << "KLINE_OPEN_TIME", "OPEN_PRICE", "HIGH_PRICE", "LOW_PRICE", "CLOSE_PRICE",
       "VOLUME", "KLINE_CLOSE_TIME", "QUOTE_ASSET_VOLUME", "NUMBER_OF_TRADES",
       "TAKER_BUY_BASE_ASSET_VOLUME", "TAKER_BUY_QUOTE_ASSET_VOLUME" >>
ColumnNames == { KlineColumns[j] : j \in 1..Len(KlineColumns) }
ColumnIndex(key) == CHOOSE j \in 1..Len(KlineColumns) : KlineColumns[j] = key

\* np.array(data).astype(float); dict(zip(KlineColumns.get_keys(), data.transpose())):
\* a payload of n >= 1 rows is an (n, 12) array, its transpose has 12 rows and
\* zip pairs the first 11 with the keys; a payload of no rows is an array of
\* shape (0,), its transpose has no rows, and the dict has no key at all.
EmptyDict == [ key \in {} |-> << >> ]
ToSeries(rows) ==
    IF Len(rows) = 0 THEN EmptyDict
    ELSE [ key \in ColumnNames |-> [ n \in 1..Len(rows) |-> rows[n][ColumnIndex(key)] ] ]

\* ------------------------------------------------------------------ state
VARIABLES
    call,        \* the invocation under study: operation and arguments
    exchange,    \* the open times (ms) of the candles the exchange holds
    pc,          \* position of the caller: "loop", "gather", "await", "returned", "raised"
    start_time,  \* the cursor of the pagination loop
    tasks,       \* the coroutines created so far, each with the arguments bound to it
    tpc,         \* position of each coroutine
    params,      \* the request parameters each coroutine has computed
    value,       \* the semaphore's counter
    held,        \* the coroutines inside `async with semaphore`
    network,     \* the requests in flight
    sent,        \* every request issued so far
    payload,     \* the response each coroutine has received
    result,      \* what each coroutine returned or raised
    completed,   \* the coroutines in the order they finished
    outcome      \* what the invocation returned or raised

cvars == << call, exchange, pc, start_time, tasks, tpc, params, value, held,
           network, sent, payload, result, completed, outcome >>

VARIABLES
    listing,     \* the symbols of the exchange's /exchangeInfo, as it answers
    spc,         \* position of get_all_symbols
    symbols,     \* what get_all_symbols returned
    trader,      \* a Trader used through its methods
    trace,       \* the method calls made on it, each with the state it found
    series,      \* the close prices of the series given to a simulation
    mode,        \* how the simulation selects its window
    window,      \* the ticks selected
    runs,        \* the simulation runs: loop position, trader, recorded lists
    clock,       \* the time of the event loop, in steps of 1/ClockPerSecond s
    limited      \* the calls made through the limiter, each with its times

svars == << listing, spc, symbols >>
tvars == << trader, trace >>
bvars == << series, mode, window, runs >>
lvars == << clock, limited >>
vars == << cvars, svars, tvars, bvars, lvars >>

\* the parts of the system a behaviour does not exercise
SymbolsOff == listing = << >> /\ spc = "off" /\ symbols = << >>
TraderOff == trader = << >> /\ trace = << >>
BacktestOff == series = << >> /\ mode = "off" /\ window = << >> /\ runs = << >>
LimiterOff == clock = 0 /\ limited = << >>

NoError == [ type |-> "None", task |-> 0 ]
NoParams == [ interval |-> "None", limit |-> 0, startTime |-> 0, endTime |-> 0 ]
Pending == [ status |-> "pending", data |-> EmptyDict, error |-> NoError ]
Returned(data) == [ status |-> "returned", data |-> data, error |-> NoError ]
Raised(error) == [ status |-> "raised", data |-> EmptyDict, error |-> error ]

Positions == 1 .. Len(tasks)
Finished(i) == tpc[i] \in { "done", "failed" }

\* ----------------------------------------------------------------- inputs
Intervals == { "1m", "5m" }
StartTimes == { 0, 1, Second }
Remainders == { 1, Slack, Slack + 1, Minute, Window }
Durations == { k * Window + r : k \in 0 .. (MaxWindows - 1), r \in Remainders }
Exchanges ==
    { FullExchange }
    \cup { FullExchange \ { g * MinuteMs } : g \in GridMinutes }
    \cup { { t \in FullExchange : t < c * MinuteMs } : c \in GridMinutes }
Now == (MaxWindows * PageSize + 1) * Minute

PeriodCalls ==
    { [ op |-> "get_prices_in_period", interval |-> "1m",
        start_time |-> s, end_time |-> s + d ] : s \in StartTimes, d \in Durations }
FetchCalls ==
    { [ op |-> "get_prices_of_", interval |-> v, start_time |-> s, end_time |-> e ] :
        v \in Intervals, s \in { None, 0 }, e \in { None, Window } }

Init ==
    /\ SymbolsOff /\ TraderOff /\ BacktestOff /\ LimiterOff
    /\ call \in PeriodCalls \cup FetchCalls
    /\ exchange \in Exchanges
    /\ start_time = call.start_time
    /\ value = max_calls
    /\ held = {}
    /\ network = {}
    /\ sent = {}
    /\ completed = << >>
    /\ outcome = Pending
    /\ IF call.op = "get_prices_in_period"
       THEN /\ pc = "loop"
            /\ tasks = << >>
            /\ tpc = << >>
            /\ params = << >>
            /\ payload = << >>
            /\ result = << >>
       ELSE /\ pc = "await"
            /\ tasks = << [ interval |-> call.interval, start_time |-> call.start_time,
                            end_time |-> call.end_time ] >>
            /\ tpc = << "created" >>
            /\ params = << NoParams >>
            /\ payload = << << >> >>
            /\ result = << Pending >>

\* ------------------------------------------------------- get_prices_in_period
\* One iteration of `while True`: the call of get_prices_of_ creates a
\* coroutine with the current values of start_time and end_time bound to its
\* parameters (nothing of its body runs yet), the cursor advances by 1000
\* minutes and the loop ends when the cursor is within one second of end_time.
AppendTask ==
    /\ pc = "loop"
    /\ tasks' = Append(tasks, [ interval |-> "1m", start_time |-> start_time,
                                end_time |-> call.end_time ])
    /\ tpc' = Append(tpc, "created")
    /\ params' = Append(params, NoParams)
    /\ payload' = Append(payload, << >>)
    /\ result' = Append(result, Pending)
    /\ start_time' = start_time + Window
    /\ pc' = IF start_time' >= call.end_time - Slack THEN "gather" ELSE "loop"
    /\ UNCHANGED << call, exchange, value, held, network, sent, completed, outcome >>

\* --------------------------------------------------------------- call_limit
\* (a semaphore that never counts as locked)
NeverLocked == FALSE
\* asyncio.Semaphore.locked()
Locked == value = 0
\* `async with semaphore` entered: one permit taken
Acquired(v) == v - 1
\* (an exit that gives no permit back)
ExitKeepsPermit(v) == v
\* `async with semaphore` left by the return statement
ExitOnReturn(v) == v + 1
\* `async with semaphore` left by an exception of the wrapped call
ExitOnError(v) == v + 1

\* session.get(url, params): the request goes out
Issue(i, p) ==
    LET request == [ task |-> i, interval |-> p.interval, limit |-> p.limit,
                     startTime |-> p.startTime, endTime |-> p.endTime ]
    IN  /\ network' = network \cup { request }
        /\ sent' = sent \cup { request }

\* _request through the limiter, as far as it runs without suspending: with a
\* permit free it takes one and issues the request, otherwise it waits.
Enter(i, p) ==
    IF Locked
    THEN /\ tpc' = [ tpc EXCEPT ![i] = "waiting" ]
         /\ UNCHANGED << value, held, network, sent >>
    ELSE /\ tpc' = [ tpc EXCEPT ![i] = "request" ]
         /\ value' = Acquired(value)
         /\ held' = held \cup { i }
         /\ Issue(i, p)

\* ----------------------------------------------------------- asyncio.gather
\* (a gather that hands the results over in the order the children finished)
ResultsByCompletion == [ i \in Positions |-> result[completed[i]].data ]
\* The results of the awaited coroutines, by their position in the call.
GatherResults == [ i \in Positions |-> result[i].data ]
\* (a gather that collects exceptions instead of raising them)
GatherCollects == FALSE
\* gather (return_exceptions=False) raises the first exception of a child to
\* its awaiter; the other children keep running.
GatherRaises == TRUE

\* the caller is still awaiting its coroutine(s)
Awaiting == pc \in { "gather", "await" }

\* coroutine i raises `error`
Fail(i, error) ==
    /\ result' = [ result EXCEPT ![i] = Raised(error) ]
    /\ completed' = Append(completed, i)
    /\ IF Awaiting /\ GatherRaises
       THEN pc' = "raised" /\ outcome' = Raised(error)
       ELSE UNCHANGED << pc, outcome >>

\* ------------------------------------------------------------ get_prices_of_
\* (the check compiled away)
AnyInterval(interval) == TRUE
\* assert interval == "1m"
IntervalSupported(interval) == interval = "1m"

\* (a coroutine that reads the loop's cursor when it runs)
CursorArgs(i) == [ tasks[i] EXCEPT !.start_time = start_time ]
\* the arguments coroutine i runs with
BoundArgs(i) == tasks[i]

\* end_time or now; start_time or end_time - timedelta(minutes=limit); the
\* params of the request
RequestParams(args) ==
    LET end == IF args.end_time = None THEN Now ELSE args.end_time
        start == IF args.start_time = None THEN end - limit * Minute ELSE args.start_time
    IN  [ interval |-> args.interval, limit |-> limit,
          startTime |-> datetime_to_timestamp(start),
          endTime |-> datetime_to_timestamp(end) ]

\* Coroutine i starts (the caller awaits it; gather starts its children in
\* position order) and runs up to its first suspension.
StartTask(i) ==
    /\ pc # "loop"
    /\ tpc[i] = "created"
    /\ \A j \in 1 .. (i - 1) : tpc[j] # "created"
    /\ IF IntervalSupported(BoundArgs(i).interval)
       THEN /\ params' = [ params EXCEPT ![i] = RequestParams(BoundArgs(i)) ]
            /\ Enter(i, params'[i])
            /\ UNCHANGED << result, completed, pc, outcome >>
       ELSE /\ tpc' = [ tpc EXCEPT ![i] = "failed" ]
            /\ Fail(i, [ type |-> "AssertionError", task |-> i ])
            /\ UNCHANGED << params, value, held, network, sent >>
    /\ UNCHANGED << call, exchange, start_time, tasks, payload >>

\* A waiting coroutine is woken with a permit free, takes it and issues its request.
Acquire(i) ==
    /\ tpc[i] = "waiting"
    /\ ~Locked
    /\ tpc' = [ tpc EXCEPT ![i] = "request" ]
    /\ value' = Acquired(value)
    /\ held' = held \cup { i }
    /\ Issue(i, params[i])
    /\ UNCHANGED << call, exchange, pc, start_time, tasks, params, payload, result,
                    completed, outcome >>

\* The response of request r arrives: the wrapped call returns the decoded
\* payload and the wrapper sleeps one second, still inside the semaphore.
Respond(r) ==
    /\ r \in network
    /\ network' = network \ { r }
    /\ payload' = [ payload EXCEPT ![r.task] =
                      Klines(exchange, r.startTime, r.endTime, r.limit) ]
    /\ tpc' = [ tpc EXCEPT ![r.task] = "sleep" ]
    /\ UNCHANGED << call, exchange, pc, start_time, tasks, params, value, held, sent,
                    result, completed, outcome >>

\* Request r times out or the connection fails: the wrapped call raises, the
\* exception leaves the `async with` block (the sleep is skipped) and the
\* coroutine.
RequestFails(r) ==
    /\ r \in network
    /\ network' = network \ { r }
    /\ value' = ExitOnError(value)
    /\ held' = held \ { r.task }
    /\ tpc' = [ tpc EXCEPT ![r.task] = "failed" ]
    /\ Fail(r.task, [ type |-> "NetworkError", task |-> r.task ])
    /\ UNCHANGED << call, exchange, start_time, tasks, params, sent, payload >>

\* The sleep of coroutine i is over: the wrapper leaves the semaphore and
\* returns the payload, get_prices_of_ turns it into columns and returns.
Wake(i) ==
    /\ tpc[i] = "sleep"
    /\ value' = ExitOnReturn(value)
    /\ held' = held \ { i }
    /\ tpc' = [ tpc EXCEPT ![i] = "done" ]
    /\ result' = [ result EXCEPT ![i] = Returned(ToSeries(payload[i])) ]
    /\ completed' = Append(completed, i)
    /\ UNCHANGED << call, exchange, pc, start_time, tasks, params, network, sent,
                    payload, outcome >>

\* ------------------------------------------------------------------- merge
RECURSIVE ConcatColumn(_, _, _)
\* np.concatenate of column `key` of the first j results
ConcatColumn(results, key, j) ==
    IF j = 0 THEN << >> ELSE ConcatColumn(results, key, j - 1) \o results[j][key]

\* tmp_data[key] of a later result that lacks a key of the first one
MergeRaises(results) ==
    \E key \in DOMAIN results[1], j \in 2 .. Len(results) : key \notin DOMAIN results[j]

\* data[key] for every key of results[0]
MergeData(results) ==
    [ key \in DOMAIN results[1] |-> ConcatColumn(results, key, Len(results)) ]

\* Every coroutine has ended and none raised to the caller: gather returns the
\* results and get_prices_in_period merges them.
Merge ==
    /\ pc = "gather"
    /\ \A i \in Positions : Finished(i)
    /\ IF MergeRaises(GatherResults)
       THEN pc' = "raised" /\ outcome' = Raised([ type |-> "KeyError", task |-> 0 ])
       ELSE pc' = "returned" /\ outcome' = Returned(MergeData(GatherResults))
    /\ UNCHANGED << call, exchange, start_time, tasks, tpc, params, value, held,
                    network, sent, payload, result, completed >>

\* The awaited get_prices_of_ has returned: its caller has the Series.
Return ==
    /\ pc = "await"
    /\ tpc[1] = "done"
    /\ pc' = "returned"
    /\ outcome' = result[1]
    /\ UNCHANGED << call, exchange, start_time, tasks, tpc, params, value, held,
                    network, sent, payload, result, completed >>

Next ==
    \/ AppendTask /\ UNCHANGED << svars, tvars, bvars, lvars >>
    \/ \E i \in Positions : StartTask(i) /\ UNCHANGED << svars, tvars, bvars, lvars >>
    \/ \E i \in Positions : Acquire(i) /\ UNCHANGED << svars, tvars, bvars, lvars >>
    \/ \E r \in network : Respond(r) /\ UNCHANGED << svars, tvars, bvars, lvars >>
    \/ \E r \in network : RequestFails(r) /\ UNCHANGED << svars, tvars, bvars, lvars >>
    \/ \E i \in Positions : Wake(i) /\ UNCHANGED << svars, tvars, bvars, lvars >>
    \/ Merge /\ UNCHANGED << svars, tvars, bvars, lvars >>
    \/ Return /\ UNCHANGED << svars, tvars, bvars, lvars >>

Spec == Init /\ [][Next]_vars

\* Every coroutine that can take a step eventually takes one: the event loop
\* runs every ready callback, every request returns or fails, every sleep ends.
\* (the candles held play no part in who completes: one exchange, one start)
LiveInit == Init /\ exchange = FullExchange /\ call.start_time \in { 0, None }
LiveSpec == LiveInit /\ [][Next]_vars /\ WF_vars(Next)

\* ================================================================= claims
Paginating == call.op = "get_prices_in_period"
AllFinished == pc # "loop" /\ \A i \in Positions : Finished(i)
InOrder(seq) == \A m \in 1 .. Len(seq) : seq[m] = m
\* the Series of the response each position received
Received == [ i \in Positions |-> ToSeries(payload[i]) ]

\* C1: whatever the order in which the sub-window fetches complete, the Series
\* get_prices_in_period returns is the concatenation, column by column, of the
\* sub-window results in position order; it is determined by the responses
\* alone, so runs that differ only in completion order return the same Series.
C1_MergedByPosition ==
    (Paginating /\ pc = "returned") =>
        /\ DOMAIN outcome.data = DOMAIN Received[1]
        /\ \A key \in DOMAIN outcome.data :
              outcome.data[key] = ConcatColumn(Received, key, Len(tasks))

C1_OutOfOrderWitness ==
    /\ Paginating /\ pc = "returned"
    /\ Len(tasks) >= 2
    /\ ~InOrder(completed)
    /\ "KLINE_OPEN_TIME" \in DOMAIN outcome.data
    /\ Len(outcome.data["KLINE_OPEN_TIME"]) > limit

\* C2: the Series returned by get_prices_in_period has strictly increasing
\* open time, for every set of candles the exchange holds.
C2_StrictlyIncreasingOpenTime ==
    (Paginating /\ pc = "returned" /\ "KLINE_OPEN_TIME" \in DOMAIN outcome.data) =>
        LET col == outcome.data["KLINE_OPEN_TIME"]
        IN  \A m \in 1 .. Len(col), n \in 1 .. Len(col) : m < n => col[m] < col[n]

\* the number of rows the fetches returned, over all sub-windows
RECURSIVE RowCount(_)
RowCount(j) == IF j = 0 THEN 0 ELSE RowCount(j - 1) + Len(payload[j])

\* C3: for every combination of row counts (0 included) returned by the
\* sub-window fetches, get_prices_in_period returns a Series every column of
\* which has as many entries as the fetches returned rows.
C3_LengthIsSumOfRowCounts ==
    (Paginating /\ pc \in { "returned", "raised" } /\ \A i \in Positions : tpc[i] = "done") =>
        /\ outcome.status = "returned"
        /\ \A key \in DOMAIN outcome.data : Len(outcome.data[key]) = RowCount(Len(tasks))

\* C4: at most max_calls requests are in flight, and a request is in flight
\* only while its caller is inside the semaphore.
C4_InFlightBounded ==
    /\ Cardinality(network) <= max_calls
    /\ \A r \in network : r.task \in held
    /\ Cardinality(held) <= max_calls

C4_PoolExhaustedWitness ==
    /\ Cardinality(network) = max_calls
    /\ \E i \in Positions : tpc[i] = "waiting"

\* C5: a caller that finds no permit free suspends (its next step is to take
\* a permit, never to fail), and every call eventually completes.
C5_AllCallsComplete ==
    /\ [][ \A i \in Positions : tpc[i] = "waiting" => tpc'[i] \in { "waiting", "request" } ]_vars
    /\ <>AllFinished

C5_SuspendedWitness ==
    /\ Len(tasks) > max_calls
    /\ \E i \in Positions : tpc[i] = "waiting" /\ value = 0

\* C6: once every call has returned or failed, every permit is free again.
C6_PermitsReleased == AllFinished => value = max_calls

C6_AbortedPaginationWitness ==
    /\ Paginating /\ AllFinished /\ pc = "raised"
    /\ \E i, j \in Positions : tpc[i] = "failed" /\ tpc[j] = "done"
    /\ Len(tasks) > max_calls

\* the first coroutine that failed
FirstFailed ==
    LET n == CHOOSE m \in 1 .. Len(completed) :
                 /\ tpc[completed[m]] = "failed"
                 /\ \A k \in 1 .. (m - 1) : tpc[completed[k]] # "failed"
    IN  completed[n]

\* C7: if a sub-window fetch fails, get_prices_in_period raises that fetch's
\* error and returns no Series.
C7_FailsAtomically ==
    (Paginating /\ \E i \in Positions : tpc[i] = "failed") =>
        /\ pc = "raised"
        /\ outcome = Raised(result[FirstFailed].error)
        /\ outcome.data = EmptyDict

C7_LaterFetchFailsWitness ==
    /\ Paginating /\ AllFinished
    /\ tpc[1] = "done" /\ Len(payload[1]) > 0
    /\ \E i \in Positions : i > 1 /\ tpc[i] = "failed"
    /\ completed[Len(completed)] = 1

\* the sub-windows of 1000 minutes [start_time, end_time) splits into
NumWindows == ((call.end_time - call.start_time) + Window - 1) \div Window

\* C8: one fetch per sub-window, the i-th requested with startTime =
\* start + i*1000 min and endTime = min(start + (i+1)*1000 min, end).
C8_OneClippedFetchPerWindow ==
    Paginating =>
        /\ pc # "loop" => Len(tasks) = NumWindows
        /\ \A r \in sent :
              /\ r.startTime = datetime_to_timestamp(call.start_time + (r.task - 1) * Window)
              /\ r.endTime = datetime_to_timestamp(
                                 Min(call.start_time + r.task * Window, call.end_time))

\* C9: the start boundary of the i-th fetch is the one bound when its
\* coroutine was created, start + i*1000 min, wherever the cursor is when the
\* request goes out; no two fetches have the same start boundary.
C9_BoundariesCaptured ==
    Paginating =>
        /\ \A i \in Positions : tasks[i].start_time = call.start_time + (i - 1) * Window
        /\ \A r \in sent :
              r.startTime = datetime_to_timestamp(call.start_time + (r.task - 1) * Window)
        /\ \A r, q \in sent : r.task # q.task => r.startTime # q.startTime

C9_CursorMovedOnWitness ==
    /\ Paginating
    /\ \E r, q \in sent : r.task = 1 /\ q.task = 2
    /\ start_time > tasks[Len(tasks)].start_time

\* C10: a fetch with an interval other than "1m" fails (the AssertionError of
\* the interval check is the spec's UnsupportedIntervalError) without a
\* request issued or a permit taken.
C10_UnsupportedIntervalFailsFirst ==
    \A i \in Positions : tasks[i].interval # "1m" =>
        /\ tpc[i] \in { "created", "failed" }
        /\ i \notin held
        /\ \A r \in sent : r.task # i
        /\ value = max_calls - Cardinality(held)
        /\ tpc[i] = "failed" =>
              /\ result[i] = Raised([ type |-> "AssertionError", task |-> i ])
              /\ outcome = result[i]

C10_UnsupportedIntervalWitness ==
    /\ call.op = "get_prices_of_" /\ call.interval = "5m"
    /\ tpc[1] = "failed" /\ pc = "raised"

\* ================================================================ symbols
\* the longest /exchangeInfo listing
MaxSymbols == 3

\* the client with no candle call under way
ClientOff ==
    /\ call = [ op |-> "none", interval |-> "1m", start_time |-> None, end_time |-> None ]
    /\ exchange = {}
    /\ pc = "off"
    /\ start_time = None
    /\ tasks = << >> /\ tpc = << >> /\ params = << >> /\ payload = << >> /\ result = << >>
    /\ value = max_calls
    /\ held = {}
    /\ network = {} /\ sent = {}
    /\ completed = << >>
    /\ outcome = Pending

QuoteAssets == { "USDT", "BTC" }
Statuses == { "TRADING", "BREAK" }
\* the listings of up to MaxSymbols symbols, the n-th named n
Listings ==
    UNION { { [ n \in 1 .. len |->
                  [ symbol |-> n, quoteAsset |-> f[n][1], status |-> f[n][2] ] ] :
              f \in [ 1 .. len -> QuoteAssets \X Statuses ] } : len \in 0 .. MaxSymbols }

\* info["quoteAsset"] == "USDT" and info["status"] == STATUS.TRADING.value
Eligible(info) == info.quoteAsset = "USDT" /\ info.status = "TRADING"
\* [info["symbol"] for info in data["symbols"] if ...]
FilterSymbols(infos) ==
    LET kept == SelectSeq(infos, Eligible)
    IN  [ n \in 1 .. Len(kept) |-> kept[n].symbol ]
\* return data[:1]
ReturnedSymbols(names) == Take(names, 1)

SymbolInit ==
    /\ ClientOff /\ TraderOff /\ BacktestOff /\ LimiterOff
    /\ listing \in Listings
    /\ spc = "call"
    /\ symbols = << >>

\* get_all_symbols calls _request: the limiter lets it in and the request of
\* /exchangeInfo goes out.
RequestSymbols ==
    /\ spc = "call"
    /\ ~Locked
    /\ value' = Acquired(value)
    /\ held' = held \cup { 0 }
    /\ spc' = "request"
    /\ UNCHANGED << listing, symbols >>

\* the listing arrives; the wrapper sleeps inside the semaphore
ExchangeInfoArrives ==
    /\ spc = "request"
    /\ spc' = "sleep"
    /\ UNCHANGED << value, held, listing, symbols >>

\* the request fails; the exception leaves the semaphore and get_all_symbols
ExchangeInfoFails ==
    /\ spc = "request"
    /\ value' = ExitOnError(value)
    /\ held' = held \ { 0 }
    /\ spc' = "raised"
    /\ UNCHANGED << listing, symbols >>

\* the sleep is over: _request returns and get_all_symbols filters the listing
ReturnSymbols ==
    /\ spc = "sleep"
    /\ value' = ExitOnReturn(value)
    /\ held' = held \ { 0 }
    /\ symbols' = ReturnedSymbols(FilterSymbols(listing))
    /\ spc' = "returned"
    /\ UNCHANGED listing

ClientRest == << call, exchange, pc, start_time, tasks, tpc, params, network, sent,
                 payload, result, completed, outcome >>

SymbolNext ==
    \/ RequestSymbols /\ UNCHANGED << ClientRest, tvars, bvars, lvars >>
    \/ ExchangeInfoArrives /\ UNCHANGED << ClientRest, tvars, bvars, lvars >>
    \/ ExchangeInfoFails /\ UNCHANGED << ClientRest, tvars, bvars, lvars >>
    \/ ReturnSymbols /\ UNCHANGED << ClientRest, tvars, bvars, lvars >>

SymbolSpec == SymbolInit /\ [][SymbolNext]_vars

\* C18: get_all_symbols returns exactly the symbols of the listing whose
\* quoteAsset is USDT and whose status is TRADING.
C18_AllEligibleSymbols ==
    spc = "returned" =>
        { symbols[n] : n \in 1 .. Len(symbols) }
            = { listing[n].symbol : n \in { m \in 1 .. Len(listing) : Eligible(listing[m]) } }

\* ================================================================ numbers
\* Balances, assets, ratios and fees are exact rationals << n, d >> in lowest
\* terms with d > 0 (the rounding of Python's floats is not modelled); prices
\* are whole numbers.
RECURSIVE GCD(_, _)
GCD(a, b) == IF b = 0 THEN a ELSE GCD(b, a % b)
Abs(x) == IF x < 0 THEN -x ELSE x
Rat(n, d) == << n \div GCD(Abs(n), d), d \div GCD(Abs(n), d) >>
R(n) == << n, 1 >>
RMul(a, b) ==
    << (a[1] \div GCD(Abs(a[1]), b[2])) * (b[1] \div GCD(Abs(b[1]), a[2])),
       (a[2] \div GCD(Abs(b[1]), a[2])) * (b[2] \div GCD(Abs(a[1]), b[2])) >>
\* a / b for b > 0
RDiv(a, b) == RMul(a, << b[2], b[1] >>)
RAdd(a, b) ==
    Rat(a[1] * (b[2] \div GCD(a[2], b[2])) + b[1] * (a[2] \div GCD(a[2], b[2])),
        (a[2] \div GCD(a[2], b[2])) * b[2])
RNeg(a) == << -a[1], a[2] >>
RSub(a, b) == RAdd(a, RNeg(b))
RLt(a, b) == RSub(a, b)[1] < 0
RLe(a, b) == RSub(a, b)[1] <= 0

\* ================================================================= traders
\* the close price is the fifth of the eleven fields of a tick
TickFields == Len(KlineColumns)
ClosePriceField == ColumnIndex("CLOSE_PRICE")
\* the n-th tick of a series, with close price p
Tick(n, p) == [ j \in 1 .. TickFields |->
                  IF j = 1 THEN (n - 1) * MinuteMs
                  ELSE IF j \in 2 .. 5 THEN p
                  ELSE IF j = 7 THEN n * MinuteMs - 1
                  ELSE 0 ]

\* Trader.__init__; TRADING_FEE is a class attribute (0.001 in
\* traders/trader.py, 0.1 in backtesting.py)
NewTrader(impl, kind, fee) ==
    [ impl |-> impl, kind |-> kind, fee |-> fee,
      balance |-> R(10000), assets |-> R(0), klines |-> << >> ]

\* Trader.append_tick
append_tick(t, tick) == [ t EXCEPT !.klines = Append(@, tick) ]

\* self.klines[KlineColumns.CLOSE_PRICE][-1] raises IndexError
NoTick(t) == Len(t.klines) = 0
\* Trader.estimated_price, with a tick in the buffer
estimated_price(t) == R(t.klines[Len(t.klines)][ClosePriceField])
\* Trader.estimated_balance, with a tick in the buffer
estimated_balance(t) == RAdd(t.balance, RMul(t.assets, estimated_price(t)))

\* money_to_spend = self.balance * ratio
money_to_spend(t, ratio) == RMul(t.balance, ratio)
\* (the price multiplied in instead of divided out)
assets_times_price(t, money) ==
    RMul(RMul(money, RSub(R(1), t.fee)), estimated_price(t))
\* assets_to_buy = (money_to_spend * (1 - self.TRADING_FEE)) / self.estimated_price
assets_to_buy(t, money) ==
    RDiv(RMul(money, RSub(R(1), t.fee)), estimated_price(t))
\* (the ratio taken for the amount)
ratio_as_amount(t, ratio) == ratio
\* assets_to_sell = self.assets * ratio
assets_to_sell(t, ratio) == RMul(t.assets, ratio)
\* (the balance sold at the price of the assets, as backtesting.py does)
proceeds_of_balance(t, sold) ==
    RMul(RMul(estimated_balance(t), sold), RSub(R(1), t.fee))
\* what the sale adds to the balance; t is the trader with the assets sold
\* already taken off.  traders/trader.py: estimated_price * assets_to_sell *
\* (1 - fee); backtesting.py: estimated_balance * assets_to_sell * (1 - fee)
proceeds(t, sold) ==
    RMul(RMul(IF t.impl = "legacy" THEN estimated_balance(t) ELSE estimated_price(t), sold),
         RSub(R(1), t.fee))

\* Trader._buy: the price is read before anything is assigned
_buy(t, ratio) ==
    IF NoTick(t)
    THEN [ trader |-> t, raised |-> TRUE ]
    ELSE [ trader |-> [ t EXCEPT
                          !.assets = RAdd(@, assets_to_buy(t, money_to_spend(t, ratio))),
                          !.balance = RSub(@, money_to_spend(t, ratio)) ],
           raised |-> FALSE ]

\* Trader._sell: the assets are taken off before the price is read
_sell(t, ratio) ==
    LET sold == assets_to_sell(t, ratio)
        less == [ t EXCEPT !.assets = RSub(@, sold) ]
    IN  IF NoTick(t)
        THEN [ trader |-> less, raised |-> TRUE ]
        ELSE [ trader |-> [ less EXCEPT !.balance = RAdd(@, proceeds(less, sold)) ],
               raised |-> FALSE ]

\* what a call of make_a_decision gives: the trader after it and the ACTION
\* returned, or "raised"
Decided(outcomeOfTrade, action) ==
    [ trader |-> outcomeOfTrade.trader,
      decision |-> IF outcomeOfTrade.raised THEN "raised" ELSE action ]
\* (a fifth of the assets gone on the way out)
SellAndHold(t) == [ trader |-> _sell(t, << 1, 5 >>).trader, decision |-> "DO_NOTHING" ]
\* return ACTION.DO_NOTHING
Hold(t) == [ trader |-> t, decision |-> "DO_NOTHING" ]

\* RandomActionTrader.make_a_decision (do_a_random_action in backtesting.py),
\* with the two values random.random() gives
RandomDecision(t, prob, ratio) ==
    IF RLt(prob, << 1, 6 >>)
    THEN Decided(_buy(t, ratio), "BUY")
    ELSE IF RLe(<< 1, 6 >>, prob) /\ RLt(prob, << 2, 6 >>)
         THEN Decided(_sell(t, ratio), "SELL")
         ELSE Hold(t)

\* prices = self.klines[KlineColumns.CLOSE_PRICE]
ClosePrices(t) == [ n \in 1 .. Len(t.klines) |-> t.klines[n][ClosePriceField] ]
short_window == 10
long_window == 50
RECURSIVE SumOver(_, _, _)
SumOver(prices, lo, hi) ==
    IF hi < lo THEN 0 ELSE prices[hi] + SumOver(prices, lo, hi - 1)
\* rolling(window=window, min_periods=1): the window ending at tick k holds
\* the last `window` prices, or all k of them while there are fewer
WindowCount(windowSize, k) == Min(windowSize, k)
WindowSum(prices, windowSize, k) ==
    SumOver(prices, k - WindowCount(windowSize, k) + 1, k)
\* (short_mavg > long_mavg)[k]: the two means compared without dividing
Signal(prices, k) ==
    WindowSum(prices, short_window, k) * WindowCount(long_window, k)
        > WindowSum(prices, long_window, k) * WindowCount(short_window, k)
\* np.roll(signals, 1)[-1]: the signal one tick earlier, which for a single
\* tick is that tick's own
RolledLast(prices) == Signal(prices, IF Len(prices) = 1 THEN 1 ELSE Len(prices) - 1)
\* (with the shifted signal always off)
CrossedFromOff(prices) == Signal(prices, Len(prices)) # FALSE
\* (the signals shifted, not rolled: the first has nothing before it)
CrossedByShift(prices) ==
    Len(prices) = 1 \/ Signal(prices, Len(prices)) # Signal(prices, Len(prices) - 1)
\* (the test turned round)
NotCrossed(prices) == Signal(prices, Len(prices)) = RolledLast(prices)
\* crossed = (signals != np.roll(signals, 1))[-1]
Crossed(prices) == Signal(prices, Len(prices)) # RolledLast(prices)

\* MovingAverageTrader.make_a_decision; [-1] of an empty array raises
MovingAverageDecision(t) ==
    IF NoTick(t)
    THEN [ trader |-> t, decision |-> "raised" ]
    ELSE IF ~ Crossed(ClosePrices(t))
         THEN Hold(t)
         ELSE IF Signal(ClosePrices(t), Len(t.klines))
              THEN Decided(_buy(t, << 1, 2 >>), "BUY")
              ELSE Decided(_sell(t, << 1, 5 >>), "SELL")

\* make_a_decision of the trader's class
make_a_decision(t, prob, ratio) ==
    IF t.kind = "mavg" THEN MovingAverageDecision(t) ELSE RandomDecision(t, prob, ratio)

\* ---------------------------------------------------------- a trader in use
\* One trader object and the calls made on it.  trace records every call:
\* the method, its arguments, the trader before and after, and what the call
\* gave ("raised" when it raised).
MaxOps == 3
MaxDigits == 10000
Prices == { 100, 125 }
\* values of random.random(), which lie in [0, 1): one for each branch of
\* the random action, and the two thresholds
Probs == { << 0, 1 >>, << 1, 6 >>, << 1, 3 >>, << 1, 2 >> }
RandomRatios == { << 0, 1 >>, << 1, 2 >> }
\* ratios of a direct _buy or _sell
Ratios == { << 0, 1 >>, << 1, 2 >>, << 1, 1 >> }
\* the classes of the repository with their TRADING_FEE, and the same
\* classes with the fee set to nothing
Classes ==
    { [ impl |-> "traders", kind |-> "random", fee |-> << 1, 1000 >> ],
      [ impl |-> "traders", kind |-> "mavg", fee |-> << 1, 1000 >> ],
      [ impl |-> "traders", kind |-> "random", fee |-> << 0, 1 >> ],
      [ impl |-> "legacy", kind |-> "random", fee |-> << 1, 10 >> ] }

\* A trader is followed through another trade only while its balance and
\* assets are written with numbers of at most MaxDigits, which keeps the
\* exact arithmetic of a trade within the integers of the model checker.
Carried(x) == Abs(x[1]) <= MaxDigits /\ x[2] <= MaxDigits
Representable(t) == Carried(t.balance) /\ Carried(t.assets)

Called(op, ratio, before, after, decision) ==
    [ op |-> op, ratio |-> ratio, before |-> before, after |-> after, decision |-> decision ]

\* a trader just constructed, or one that has been given its first tick
TradeInit ==
    /\ ClientOff /\ SymbolsOff /\ BacktestOff /\ LimiterOff
    /\ \E c \in Classes :
         trader \in { NewTrader(c.impl, c.kind, c.fee) }
                      \cup { append_tick(NewTrader(c.impl, c.kind, c.fee), Tick(1, p)) : p \in Prices }
    /\ trace = << >>

\* trader.append_tick(tick_data)
CallAppendTick(p) ==
    /\ Len(trace) < MaxOps
    /\ trader.impl = "traders"
    /\ trader' = append_tick(trader, Tick(Len(trader.klines) + 1, p))
    /\ trace' = Append(trace, Called("append_tick", << 0, 1 >>, trader, trader', "none"))

\* trader.make_a_decision()
CallMakeADecision(prob, ratio) ==
    /\ Len(trace) < MaxOps
    /\ trader.impl = "traders"
    /\ Representable(trader)
    /\ trader' = make_a_decision(trader, prob, ratio).trader
    /\ trace' = Append(trace, Called("make_a_decision", ratio, trader, trader',
                                     make_a_decision(trader, prob, ratio).decision))

\* trader.make_a_decision(tick_data) of backtesting.py, which stores the tick
\* itself
CallLegacyDecision(p, prob, ratio) ==
    /\ Len(trace) < MaxOps
    /\ trader.impl = "legacy"
    /\ Representable(trader)
    /\ LET ticked == append_tick(trader, Tick(Len(trader.klines) + 1, p))
       IN  /\ trader' = RandomDecision(ticked, prob, ratio).trader
           /\ trace' = Append(trace, Called("make_a_decision", ratio, trader, trader',
                                            RandomDecision(ticked, prob, ratio).decision))

\* trader._buy(ratio)
CallBuy(ratio) ==
    /\ Len(trace) < MaxOps
    /\ Representable(trader)
    /\ trader' = _buy(trader, ratio).trader
    /\ trace' = Append(trace, Called("_buy", ratio, trader, trader',
                                     IF _buy(trader, ratio).raised THEN "raised" ELSE "BUY"))

\* trader._sell(ratio)
CallSell(ratio) ==
    /\ Len(trace) < MaxOps
    /\ Representable(trader)
    /\ trader' = _sell(trader, ratio).trader
    /\ trace' = Append(trace, Called("_sell", ratio, trader, trader',
                                     IF _sell(trader, ratio).raised THEN "raised" ELSE "SELL"))

TradeNext ==
    \/ \E p \in Prices : CallAppendTick(p) /\ UNCHANGED << cvars, svars, bvars, lvars >>
    \/ \E prob \in Probs, ratio \in RandomRatios :
         CallMakeADecision(prob, ratio) /\ UNCHANGED << cvars, svars, bvars, lvars >>
    \/ \E p \in Prices, prob \in Probs, ratio \in RandomRatios :
         CallLegacyDecision(p, prob, ratio) /\ UNCHANGED << cvars, svars, bvars, lvars >>
    \/ \E ratio \in Ratios : CallBuy(ratio) /\ UNCHANGED << cvars, svars, bvars, lvars >>
    \/ \E ratio \in Ratios : CallSell(ratio) /\ UNCHANGED << cvars, svars, bvars, lvars >>

TradeSpec == TradeInit /\ [][TradeNext]_vars

\* ------------------------------------------------- claims about the traders
Calls == { trace[k] : k \in 1 .. Len(trace) }
SamePortfolio(a, b) == a.balance = b.balance /\ a.assets = b.assets
Decisions == { "BUY", "SELL", "DO_NOTHING" }

\* C11: make_a_decision on a freshly constructed RandomActionTrader or
\* MovingAverageTrader, before any append_tick, always raises, returns no
\* decision and leaves balance and assets as they were.
C11_DecideOnFreshTraderRaises ==
    \A e \in Calls :
        ( /\ e.op = "make_a_decision"
          /\ e.before.impl = "traders"
          /\ e.before = NewTrader(e.before.impl, e.before.kind, e.before.fee) )
        => e.decision = "raised" /\ SamePortfolio(e.before, e.after)

\* the ratio a recorded sale was made with
SoldRatio(e) ==
    IF e.op = "make_a_decision" /\ e.before.kind = "mavg" THEN << 1, 5 >> ELSE e.ratio
\* C12: in both Trader classes a sale takes assets * ratio off the assets and
\* adds exactly sold * price * (1 - fee) to the balance, whatever the balance.
C12_SellProceeds ==
    \A e \in Calls :
        e.decision = "SELL"
        => /\ e.after.assets = RSub(e.before.assets, RMul(e.before.assets, SoldRatio(e)))
           /\ e.after.balance =
                RAdd(e.before.balance,
                     RMul(RMul(RMul(e.before.assets, SoldRatio(e)), estimated_price(e.after)),
                          RSub(R(1), e.before.fee)))

\* a purchase by traders/trader.py directly followed by _sell(1.0), with no
\* tick in between (so at the same price)
RoundTrips ==
    { k \in 1 .. Len(trace) - 1 :
        /\ trace[k].before.impl = "traders"
        /\ trace[k].decision = "BUY"
        /\ trace[k + 1].op = "_sell"
        /\ trace[k + 1].ratio = << 1, 1 >>
        /\ trace[k + 1].decision = "SELL" }
BackToStart(k) == trace[k + 1].after.balance = trace[k].before.balance
BelowStart(k) == RLt(trace[k + 1].after.balance, trace[k].before.balance)
C19_PortfolioNeverNegative ==
    /\ RLe(R(0), trader.balance)
    /\ RLe(R(0), trader.assets)
    /\ \A e \in Calls :
         ( e.op \in { "append_tick", "make_a_decision" } /\ ~ SamePortfolio(e.before, e.after) )
         => e.decision \in { "BUY", "SELL" }
C19_SoldOnDecisionWitness ==
    \E e \in Calls :
        /\ e.op = "make_a_decision"
        /\ e.decision = "SELL"
        /\ RLt(e.after.assets, e.before.assets)
        /\ RLt(e.before.balance, e.after.balance)

\* C20: a make_a_decision of the strategies that returns DO_NOTHING leaves
\* balance, assets and the buffer of ticks as they were, and so the estimated
\* balance; with a tick in the buffer the call returns one of BUY, SELL and
\* DO_NOTHING.
C20_HoldChangesNothing ==
    \A e \in Calls :
        ( e.op = "make_a_decision" /\ e.before.impl = "traders" )
        => /\ e.decision = "DO_NOTHING"
                => /\ e.after = e.before
                   /\ ~ NoTick(e.before)
                        => estimated_balance(e.after) = estimated_balance(e.before)
           /\ ~ NoTick(e.before) => e.decision \in Decisions
C20_HoldWithAssetsWitness ==
    \E e \in Calls :
        /\ e.op = "make_a_decision"
        /\ e.decision = "DO_NOTHING"
        /\ RLt(R(0), e.before.assets)

\* ============================================================= backtester
\* Backtester.do_backtesting: a window of n_data consecutive ticks of the
\* loaded series is selected at a random offset and fed tick by tick to a
\* new trader.  The length of the window is scaled down.  Two traders are
\* run over the same window, each by its own loop.
WindowTicks == 3
n_data == WindowTicks
Replicas == { 1, 2 }

\* k ticks with close price p, numbered from n
Level(n, k, p) == [ j \in 1 .. k |-> Tick(n + j - 1, p) ]
\* loaded series: close 90 for ten ticks then 110 for ten; close 100 for
\* sixty ticks; 90 for ten ticks, 110 for ten and 90 again for seven; and
\* one too short for a window
StepSeries == Level(1, 10, 90) \o Level(11, 10, 110)
FlatSeries == Level(1, 60, 100)
PulseSeries == Level(1, 10, 90) \o Level(11, 10, 110) \o Level(21, 7, 90)
ShortSeries == Level(1, 2, 100)
AllSeries == { StepSeries, FlatSeries, PulseSeries, ShortSeries }

\* from binance_bot.traders import MovingAverageTrader as Trader; Trader()
NewRun ==
    [ status |-> "loop", pos |-> 0,
      trader |-> NewTrader("traders", "mavg", << 1, 1000 >>),
      decisions |-> << >>, balances |-> << >>, calls |-> << >> ]

\* (RandomActionTrader imported as Trader)
RandomTraderDecision(t, prob, ratio) == RandomDecision(t, prob, ratio)
\* trader.make_a_decision() of the class imported as Trader
TraderDecision(t, prob, ratio) == MovingAverageDecision(t)

AppendCall(tick) == [ op |-> "append_tick", tick |-> tick ]
DecideCall == [ op |-> "make_a_decision", tick |-> << >> ]

\* (the decision asked for before the tick is stored)
StepDecidingFirst(run, tick, prob, ratio) ==
    LET d == TraderDecision(run.trader, prob, ratio)
    IN  IF d.decision = "raised"
        THEN [ run EXCEPT !.status = "raised", !.trader = d.trader,
                          !.calls = Append(@, DecideCall) ]
        ELSE [ run EXCEPT !.pos = @ + 1,
                          !.trader = append_tick(d.trader, tick),
                          !.decisions = Append(@, d.decision),
                          !.balances = Append(@, estimated_balance(append_tick(d.trader, tick))),
                          !.calls = @ \o << DecideCall, AppendCall(tick) >> ]
\* one pass of the loop body: append_tick, make_a_decision, then the
\* decision and the estimated balance recorded; an exception ends the run
Step(run, tick, prob, ratio) ==
    LET d == TraderDecision(append_tick(run.trader, tick), prob, ratio)
    IN  IF d.decision = "raised"
        THEN [ run EXCEPT !.status = "raised", !.trader = d.trader,
                          !.calls = @ \o << AppendCall(tick), DecideCall >> ]
        ELSE [ run EXCEPT !.pos = @ + 1,
                          !.trader = d.trader,
                          !.decisions = Append(@, d.decision),
                          !.balances = Append(@, estimated_balance(d.trader)),
                          !.calls = @ \o << AppendCall(tick), DecideCall >> ]

BacktestInit ==
    /\ ClientOff /\ SymbolsOff /\ TraderOff /\ LimiterOff
    /\ series \in AllSeries
    /\ mode \in { "slice", "whole" }
    /\ window = << >>
    /\ runs = << >>

\* idx = random.randint(a=0, b=len(...) - n_data); data[key] = value[idx : idx + n_data]
SelectWindow ==
    /\ mode = "slice"
    /\ Len(series) >= n_data
    /\ \E idx \in 0 .. Len(series) - n_data :
         window' = SubSeq(series, idx + 1, idx + n_data)
    /\ mode' = "loop"
    /\ runs' = [ r \in Replicas |-> NewRun ]
    /\ UNCHANGED series

\* random.randint raises ValueError on an empty range
SelectRaises ==
    /\ mode = "slice"
    /\ Len(series) < n_data
    /\ mode' = "raised"
    /\ UNCHANGED << series, window, runs >>

\* the loop run over a series given whole
FeedWhole ==
    /\ mode = "whole"
    /\ window' = series
    /\ mode' = "loop"
    /\ runs' = [ r \in Replicas |-> NewRun ]
    /\ UNCHANGED series

\* for tick_data in zip(*data.values()): one tick of one trader's loop
Iterate(r) ==
    /\ mode = "loop"
    /\ runs[r].status = "loop"
    /\ runs[r].pos < Len(window)
    /\ \E prob \in Probs, ratio \in RandomRatios :
         runs' = [ runs EXCEPT ![r] = Step(@, window[runs[r].pos + 1], prob, ratio) ]
    /\ UNCHANGED << series, mode, window >>

\* the loop is through; plot_candle_chart is given balances and decisions
Finish(r) ==
    /\ mode = "loop"
    /\ runs[r].status = "loop"
    /\ runs[r].pos = Len(window)
    /\ runs' = [ runs EXCEPT ![r].status = "done" ]
    /\ UNCHANGED << series, mode, window >>

BacktestNext ==
    \/ SelectWindow /\ UNCHANGED << cvars, svars, tvars, lvars >>
    \/ SelectRaises /\ UNCHANGED << cvars, svars, tvars, lvars >>
    \/ FeedWhole /\ UNCHANGED << cvars, svars, tvars, lvars >>
    \/ \E r \in Replicas : Iterate(r) /\ UNCHANGED << cvars, svars, tvars, lvars >>
    \/ \E r \in Replicas : Finish(r) /\ UNCHANGED << cvars, svars, tvars, lvars >>

BacktestSpec == BacktestInit /\ [][BacktestNext]_vars

\* ---------------------------------------------- claims about the backtester
Looping == mode = "loop"
\* the calls a loop has made after n ticks of window w
ExpectedCalls(w, n) ==
    [ j \in 1 .. 2 * n |-> IF j % 2 = 1 THEN AppendCall(w[(j + 1) \div 2]) ELSE DecideCall ]
TicksWhere(run, decision) ==
    { k \in 1 .. Len(run.decisions) : run.decisions[k] = decision }

\* C14: the loop takes the ticks of the window in order, calls append_tick
\* and then make_a_decision once for each, and records one decision and one
\* estimated balance per tick: after n ticks both lists have n entries, and
\* when the loop is through as many as the window has ticks.
C14_OneDecisionPerTick ==
    Looping =>
        \A r \in Replicas :
            /\ runs[r].status # "raised"
            /\ runs[r].calls = ExpectedCalls(window, runs[r].pos)
            /\ runs[r].trader.klines = SubSeq(window, 1, runs[r].pos)
            /\ Len(runs[r].decisions) = runs[r].pos
            /\ Len(runs[r].balances) = runs[r].pos
            /\ runs[r].pos > 0 =>
                 /\ runs[r].decisions[runs[r].pos] \in Decisions
                 /\ runs[r].balances[runs[r].pos] = estimated_balance(runs[r].trader)
            /\ runs[r].status = "done" => runs[r].pos = Len(window)
            /\ \A k \in 1 .. Len(window) - 1 : window[k][1] < window[k + 1][1]
C14_WindowDoneWitness ==
    /\ Looping
    /\ Len(window) = n_data
    /\ window # SubSeq(series, 1, n_data)
    /\ \E r \in Replicas : runs[r].status = "done" /\ Len(runs[r].decisions) = n_data

C16_OneBuyAfterTheStep ==
    ( Looping /\ window = StepSeries ) =>
        \A r \in Replicas :
            runs[r].status = "done" =>
                /\ Len(runs[r].decisions) = Len(StepSeries)
                /\ Cardinality(TicksWhere(runs[r], "BUY")) = 1
                /\ TicksWhere(runs[r], "BUY") \subseteq 11 .. 15
                /\ TicksWhere(runs[r], "SELL") = {}
                /\ TicksWhere(runs[r], "DO_NOTHING")
                     = (1 .. Len(StepSeries)) \ TicksWhere(runs[r], "BUY")
C16_BoughtAtTheStepWitness ==
    /\ Looping
    /\ window = StepSeries
    /\ \E r \in Replicas : runs[r].status = "done" /\ runs[r].decisions[11] = "BUY"

\* C17: on sixty ticks of close 100, every tick after the fiftieth gets
\* DO_NOTHING and leaves balance and assets as they were.
C17_FlatSeriesHolds ==
    [][ ( Looping /\ window = FlatSeries ) =>
          \A r \in Replicas :
              ( runs[r].pos >= long_window /\ runs'[r].pos = runs[r].pos + 1 ) =>
                  /\ runs'[r].decisions[runs'[r].pos] = "DO_NOTHING"
                  /\ SamePortfolio(runs[r].trader, runs'[r].trader) ]_vars
C17_FlatSeriesDoneWitness ==
    /\ Looping
    /\ window = FlatSeries
    /\ \E r \in Replicas :
         /\ runs[r].status = "done"
         /\ runs[r].pos = 60
         /\ \A k \in 51 .. 60 : runs[r].decisions[k] = "DO_NOTHING"

\* C21: make_a_decision of a MovingAverageTrader whose buffer holds exactly
\* one tick returns DO_NOTHING, whatever the close price, and leaves the
\* trader as it was.
C21_FirstTickHolds ==
    \A e \in Calls :
        ( e.op = "make_a_decision" /\ e.before.kind = "mavg" /\ Len(e.before.klines) = 1 )
        => e.decision = "DO_NOTHING" /\ e.after = e.before
C21_FirstTickDecidedWitness ==
    \E e \in Calls :
        /\ e.op = "make_a_decision"
        /\ e.before.kind = "mavg"
        /\ Len(e.before.klines) = 1
        /\ e.decision = "DO_NOTHING"

\* the estimated balance of trader t at the close price of trader u
EquityAt(t, u) == RAdd(t.balance, RMul(t.assets, estimated_price(u)))
\* the recorded calls that bought or sold
Trades == { e \in Calls : e.decision \in { "BUY", "SELL" } }
\* C24: in both Trader classes a purchase or a sale never raises the
\* estimated balance taken at the same close price, and lowers it when the
\* fee is not zero and something was traded.
C24_NoTradeCreatesValue ==
    \A e \in Trades :
        /\ RLe(EquityAt(e.after, e.after), EquityAt(e.before, e.after))
        /\ ( e.before.fee # R(0) /\ ~ SamePortfolio(e.before, e.after) )
           => RLt(EquityAt(e.after, e.after), EquityAt(e.before, e.after))

\* the open times in the Series get_prices_in_period returned
ReturnedOpenTimes ==
    IF "KLINE_OPEN_TIME" \in DOMAIN outcome.data
    THEN { outcome.data["KLINE_OPEN_TIME"][n] :
             n \in 1 .. Len(outcome.data["KLINE_OPEN_TIME"]) }
    ELSE {}
\* the candles of the exchange that open in [start_time, end_time)
RequestedCandles ==
    { t \in exchange : call.start_time <= t * Ms /\ t * Ms < call.end_time }
\* C23: the Series get_prices_in_period returns has every candle of the
\* exchange that opens in [start_time, end_time), whatever the length of the
\* range, and at least one fetch was made for it.
C23_WholeRangeCovered ==
    ( Paginating /\ pc = "returned" ) =>
        /\ Len(tasks) >= 1
        /\ RequestedCandles \subseteq ReturnedOpenTimes

\* ====================================================== the limiter in time
\* Calls of _request through the limiter, with the time of the event loop:
\* when each call got its permit and started the wrapped request, when the
\* request finished, and when the permit was given back.  A request takes
\* any time at all; asyncio.sleep(1) ends no earlier than a second after it
\* began.
ClockPerSecond == 2
MaxClock == 4
\* one caller more than there are permits
Callers == 1 .. (max_calls + 1)
NewCall == [ at |-> "idle", started |-> None, finished |-> None, released |-> None ]

LimiterInit ==
    /\ ClientOff /\ SymbolsOff /\ TraderOff /\ BacktestOff
    /\ clock = 0
    /\ limited = [ c \in Callers |-> NewCall ]

\* wrapper(...) is called: `async with semaphore` takes a permit and the
\* wrapped request starts, or the caller waits for a permit
CallEnters(c) ==
    /\ limited[c].at = "idle"
    /\ IF Locked
       THEN /\ limited' = [ limited EXCEPT ![c].at = "waiting" ]
            /\ UNCHANGED << value, held >>
       ELSE /\ limited' = [ limited EXCEPT ![c].at = "request", ![c].started = clock ]
            /\ value' = Acquired(value)
            /\ held' = held \cup { c }
    /\ UNCHANGED clock

\* a waiting caller gets a permit and its request starts
CallAcquires(c) ==
    /\ limited[c].at = "waiting"
    /\ ~Locked
    /\ limited' = [ limited EXCEPT ![c].at = "request", ![c].started = clock ]
    /\ value' = Acquired(value)
    /\ held' = held \cup { c }
    /\ UNCHANGED clock

\* f = await func(...) returns; await asyncio.sleep(1) begins
CallSucceeds(c) ==
    /\ limited[c].at = "request"
    /\ limited' = [ limited EXCEPT ![c].at = "sleep", ![c].finished = clock ]
    /\ UNCHANGED << value, held, clock >>

\* await func(...) raises: the exception leaves `async with` at once
CallRaises(c) ==
    /\ limited[c].at = "request"
    /\ limited' = [ limited EXCEPT ![c].at = "raised", ![c].finished = clock,
                                   ![c].released = clock ]
    /\ value' = ExitOnError(value)
    /\ held' = held \ { c }
    /\ UNCHANGED clock

\* the sleep is over, a second or more after it began: return f
CallWakes(c) ==
    /\ limited[c].at = "sleep"
    /\ clock >= limited[c].finished + ClockPerSecond
    /\ limited' = [ limited EXCEPT ![c].at = "returned", ![c].released = clock ]
    /\ value' = ExitOnReturn(value)
    /\ held' = held \ { c }
    /\ UNCHANGED clock

TimePasses ==
    /\ clock < MaxClock
    /\ clock' = clock + 1
    /\ UNCHANGED << limited, value, held >>

LimiterNext ==
    \/ \E c \in Callers : CallEnters(c) /\ UNCHANGED << ClientRest, svars, tvars, bvars >>
    \/ \E c \in Callers : CallAcquires(c) /\ UNCHANGED << ClientRest, svars, tvars, bvars >>
    \/ \E c \in Callers : CallSucceeds(c) /\ UNCHANGED << ClientRest, svars, tvars, bvars >>
    \/ \E c \in Callers : CallRaises(c) /\ UNCHANGED << ClientRest, svars, tvars, bvars >>
    \/ \E c \in Callers : CallWakes(c) /\ UNCHANGED << ClientRest, svars, tvars, bvars >>
    \/ TimePasses /\ UNCHANGED << ClientRest, svars, tvars, bvars >>

LimiterSpec == LimiterInit /\ [][LimiterNext]_vars

\* the calls whose request started in the second that begins at time t
StartedWithin(t) ==
    { c \in Callers : limited[c].started # None
                      /\ t <= limited[c].started /\ limited[c].started < t + ClockPerSecond }
\* C22: every call gives its permit back a second or more after its request
\* finished, whether the request returned or raised, and so no more than
\* max_calls requests start within any one second.
C22_PermitKeptOneSecond ==
    /\ \A c \in Callers :
         limited[c].released # None
         => limited[c].released >= limited[c].finished + ClockPerSecond
    /\ \A t \in 0 .. MaxClock : Cardinality(StartedWithin(t)) <= max_calls

====
